---- MODULE Spec2Model ----
(***************************************************************************)
(* Model of the generated-code assembler of unittest-ai-agent              *)
(* (src/src/ut/cli/commands/generate.py): the snippet normalizer           *)
(* postprocess_test_code_enhanced, the recovery parser                     *)
(* extract_imports_and_functions, the import classifier                    *)
(* refine_local_imports, the assembler combine_test_code, the append mode  *)
(* append_test_to_file and the per-file loop of process_file.              *)
(*                                                                         *)
(* Representation of text.  A Python string is a sequence of lines (the    *)
(* result of str.split("\n"), so the empty string is one empty line) and a *)
(* line is a sequence of tokens.  A token is an indivisible piece of text: *)
(* keywords carry their trailing space ("from ", "import ", "def "), so    *)
(* that the code's literal patterns are token sequences:                   *)
(*      "from test_"  is  <<"from ", "test_">>                             *)
(*      " import "    is  <<" ", "import ">>                               *)
(* Python's substring test, str.replace, str.split and str.startswith are  *)
(* modelled on token sequences (contiguous sub-sequences).                 *)
(***************************************************************************)
EXTENDS Integers, Sequences, FiniteSets, TLC

----------------------------------------------------------------------------
(* Strings: lines as token sequences                                       *)

\* The indentation token (four spaces).
IND == "    "

\* str.isspace() on a token.
IsSpace(tok) == tok \in {" ", IND}

\* s.startswith(prefix)
StartsWith(line, prefix) ==
    /\ Len(line) >= Len(prefix)
    /\ SubSeq(line, 1, Len(prefix)) = prefix

\* s.startswith((p1, p2, ...)): a tuple of prefixes.
StartsWithAny(line, prefixes) == \E p \in prefixes : StartsWith(line, p)

\* The first index at or after i where pat occurs in line, 0 when there is none.
RECURSIVE FindFrom(_, _, _)
FindFrom(line, pat, i) ==
    IF i + Len(pat) - 1 > Len(line) THEN 0
    ELSE IF SubSeq(line, i, i + Len(pat) - 1) = pat THEN i
    ELSE FindFrom(line, pat, i + 1)

\* pat in s
Contains(line, pat) == FindFrom(line, pat, 1) # 0

\* s.replace(pat, rep): every non-overlapping occurrence, left to right.
RECURSIVE Replace(_, _, _)
Replace(line, pat, rep) ==
    LET k == FindFrom(line, pat, 1)
    IN  IF k = 0 \/ pat = <<>> THEN line
        ELSE SubSeq(line, 1, k - 1) \o rep
             \o Replace(SubSeq(line, k + Len(pat), Len(line)), pat, rep)

\* s.split(sep): the pieces between the occurrences of sep.
RECURSIVE Split(_, _)
Split(line, sep) ==
    LET k == FindFrom(line, sep, 1)
    IN  IF k = 0 THEN <<line>>
        ELSE <<SubSeq(line, 1, k - 1)>>
             \o Split(SubSeq(line, k + Len(sep), Len(line)), sep)

\* s.lstrip() / s.rstrip() / s.strip() on one line.
RECURSIVE LStrip(_)
LStrip(line) ==
    IF line # <<>> /\ IsSpace(Head(line)) THEN LStrip(Tail(line)) ELSE line

RECURSIVE RStrip(_)
RStrip(line) ==
    IF line # <<>> /\ IsSpace(line[Len(line)])
    THEN RStrip(SubSeq(line, 1, Len(line) - 1))
    ELSE line

Strip(line) == LStrip(RStrip(line))

----------------------------------------------------------------------------
(* Strings: texts as line sequences                                        *)

\* The empty string "": one empty line.
EmptyText == << <<>> >>

\* A line that str.strip() of the whole text removes: only whitespace.
IsBlankLine(line) == Strip(line) = <<>>

RECURSIVE DropBlankHead(_)
DropBlankHead(text) ==
    IF text # <<>> /\ IsBlankLine(Head(text)) THEN DropBlankHead(Tail(text))
    ELSE text

RECURSIVE DropBlankTail(_)
DropBlankTail(text) ==
    IF text # <<>> /\ IsBlankLine(text[Len(text)])
    THEN DropBlankTail(SubSeq(text, 1, Len(text) - 1))
    ELSE text

\* text.strip(): whitespace, newlines included, removed at both ends.
StripText(text) ==
    LET t == DropBlankTail(DropBlankHead(text))
    IN  IF t = <<>> THEN EmptyText
        ELSE IF Len(t) = 1 THEN <<Strip(t[1])>>
        ELSE <<LStrip(t[1])>> \o SubSeq(t, 2, Len(t) - 1) \o <<RStrip(t[Len(t)])>>

\* "\n".join(parts), each part a text of one or more lines.
RECURSIVE JoinLines(_)
JoinLines(parts) ==
    IF parts = <<>> THEN EmptyText
    ELSE IF Len(parts) = 1 THEN parts[1]
    ELSE parts[1] \o JoinLines(Tail(parts))

\* pat in text, for a pattern without a newline.
TextContains(text, pat) == \E i \in 1..Len(text) : Contains(text[i], pat)

\* text.replace(pat, rep), for a pattern without a newline.
ReplaceInText(text, pat, rep) == [i \in 1..Len(text) |-> Replace(text[i], pat, rep)]

----------------------------------------------------------------------------
(* Snippet normalizer: postprocess_test_code_enhanced                      *)

\* The placeholder module names, in the order the loop visits them.
\* "<module_name>" is the three tokens "<", "module_name", ">".
placeholders ==
    << <<"your_module">>, <<"module_name">>, <<"my_module">>, <<"sample_module">>,
       <<"<", "module_name", ">">>, <<"path.to.module">> >>

\* The markdown fence (three backquotes), one token.
FENCE == "~~~"

\* re.sub(FENCE (?:python)?, "", test_code): a fence, with its language tag
\* when it has one, is removed wherever it stands.
RemoveFences(text) ==
    ReplaceInText(ReplaceInText(text, <<FENCE, "python">>, <<>>), <<FENCE>>, <<>>)

\* The loop over the placeholders: "from <placeholder>" and then
\* "import <placeholder>" are replaced, one placeholder after the other.
RECURSIVE ReplacePlaceholders(_, _, _)
ReplacePlaceholders(text, phs, path) ==
    IF phs = <<>> THEN text
    ELSE LET ph == Head(phs)
             t1 == ReplaceInText(text, <<"from ">> \o ph, <<"from ">> \o path)
             t2 == ReplaceInText(t1, <<"import ">> \o ph, <<"import ">> \o path)
         IN  ReplacePlaceholders(t2, Tail(phs), path)

\* Tokens that are not made of the characters of [\w.] only.
NonWordTokens ==
    {" ", IND, "#", "(", ")", "*", ",", ":", "<", ">", "@", FENCE,
     "from ", "import ", "def ", "print(1)", "x = 1",
     "\"\"\"Tests for ", " module.\"\"\""}

IsWordToken(tok) == tok \notin NonWordTokens

\* The end of the run of [\w.] tokens that starts at index i.
RECURSIVE WordRunEnd(_, _)
WordRunEnd(line, i) ==
    IF i <= Len(line) /\ IsWordToken(line[i]) THEN WordRunEnd(line, i + 1) ELSE i

\* re.sub(r"from \.([\w\.]*) import", f"from {path}\\1 import", line)
RECURSIVE RewriteRelative(_, _)
RewriteRelative(line, path) ==
    LET k == FindFrom(line, <<"from ", ".">>, 1)
        j == WordRunEnd(line, k + 2)
    IN  IF k = 0 THEN line
        ELSE IF j + 1 <= Len(line) /\ line[j] = " " /\ line[j + 1] = "import "
        THEN SubSeq(line, 1, k - 1) \o <<"from ">> \o path
             \o SubSeq(line, k + 2, j + 1)
             \o RewriteRelative(SubSeq(line, j + 2, Len(line)), path)
        ELSE SubSeq(line, 1, k) \o RewriteRelative(SubSeq(line, k + 1, Len(line)), path)

\* if "from ." in test_code: the relative imports are made absolute.
RewriteRelativeImports(text, path) ==
    IF TextContains(text, <<"from ", ".">>)
    THEN [i \in 1..Len(text) |-> RewriteRelative(text[i], path)]
    ELSE text

\* A line whose stripped text starts with "import " or "from ".
IsImportLine(line) == StartsWithAny(Strip(line), {<<"import ">>, <<"from ">>})

\* The import of the unit under test is put first when the text names the
\* function but not the module, unless the text already starts with an import.
EnsureImport(text, function_name, path) ==
    IF /\ ~TextContains(text, path)
       /\ TextContains(text, function_name)
       /\ ~StartsWith(text[1], <<"import ">>)
       /\ ~StartsWith(text[1], <<"from ">>)
    THEN << <<"from ">> \o path \o <<" ", "import ">> \o function_name, <<>> >> \o text
    ELSE text

\* The last loop: an import line that was already seen (same text, spaces
\* included) is dropped; every other line is kept.
RECURSIVE DropRepeatedImports(_, _)
DropRepeatedImports(text, seen_imports) ==
    IF text = <<>> THEN <<>>
    ELSE LET line == Head(text)
         IN  IF IsImportLine(line)
             THEN IF line \in seen_imports
                  THEN DropRepeatedImports(Tail(text), seen_imports)
                  ELSE <<line>> \o DropRepeatedImports(Tail(text), seen_imports \cup {line})
             ELSE <<line>> \o DropRepeatedImports(Tail(text), seen_imports)

\* The loop with the "from <placeholder>" replacement left out.
RECURSIVE ReplacePlaceholdersImportOnly(_, _, _)
ReplacePlaceholdersImportOnly(text, phs, path) ==
    IF phs = <<>> THEN text
    ELSE ReplacePlaceholdersImportOnly(
             ReplaceInText(text, <<"import ">> \o Head(phs), <<"import ">> \o path),
             Tail(phs), path)

PlaceholderStep_ImportFormOnly(text, path) ==
    ReplacePlaceholdersImportOnly(text, placeholders, path)

\* The placeholder step: the loop over the placeholders.
PlaceholderStep(text, path) == ReplacePlaceholders(text, placeholders, path)

postprocess_test_code_enhanced(test_code, function_name, module_import_path) ==
    LET t1 == StripText(RemoveFences(test_code))
        t2 == PlaceholderStep(t1, module_import_path)
        t3 == RewriteRelativeImports(t2, module_import_path)
        t4 == EnsureImport(t3, function_name, module_import_path)
        t5 == DropRepeatedImports(t4, {})
    IN  StripText(IF t5 = <<>> THEN EmptyText ELSE t5)

----------------------------------------------------------------------------
(* Snippet recovery parser: extract_imports_and_functions                  *)

\* The filter of an import line: no test-module self-import, no TODO marker.
ImportAccepted(line) ==
    /\ ~Contains(line, <<"from ", "test_">>)
    /\ ~Contains(line, <<"TODO:">>)

\* len("\n".join(current_function).strip()) > 0
HasText(block) == \E i \in 1..Len(block) : ~IsBlankLine(block[i])

\* "assert" in func_content or "pass" in func_content or "raise" in func_content
IsComplete(block) ==
    \/ TextContains(block, <<"assert">>)
    \/ TextContains(block, <<"pass">>)
    \/ TextContains(block, <<"raise">>)

\* The parser before the first line.
ParserInit ==
    [imports |-> {}, functions |-> <<>>, current_function |-> <<>>,
     in_function |-> FALSE, decorator_lines |-> <<>>]

\* functions.append("\n".join(current_function)) when a block is open.
CloseOpenBlock(st) ==
    IF st.current_function # <<>>
    THEN Append(st.functions, st.current_function)
    ELSE st.functions

\* The decorator line taken into the open block, which stays open.
DecoratorStep_StaysInBlock(st, line) ==
    IF st.in_function
    THEN [st EXCEPT !.current_function = Append(@, line)]
    ELSE [st EXCEPT !.decorator_lines = Append(@, line)]

\* elif line.strip().startswith("@"): the open block is closed and the
\* decorator line buffered.
DecoratorStep(st, line) ==
    [st EXCEPT !.functions = CloseOpenBlock(st),
               !.current_function = <<>>,
               !.decorator_lines = Append(@, line),
               !.in_function = FALSE]

\* The buffered decorators copied to the new block and left in the buffer.
DefStep_KeepsBuffer(st, line) ==
    [st EXCEPT !.functions = CloseOpenBlock(st),
               !.current_function = st.decorator_lines \o <<line>>,
               !.in_function = TRUE]

\* elif line.startswith("def test_"): the open block is closed and a new one
\* started with the buffered decorators.
DefStep(st, line) ==
    [st EXCEPT !.functions = CloseOpenBlock(st),
               !.current_function = st.decorator_lines \o <<line>>,
               !.decorator_lines = <<>>,
               !.in_function = TRUE]

\* One iteration of the loop over the lines.
ParseLine(st, line) ==
    IF \/ Strip(line) = <<")">>
       \/ (StartsWith(Strip(line), <<"#">>) /\ ~st.in_function)
    THEN st
    ELSE IF IsImportLine(line) /\ ~st.in_function
    THEN IF ImportAccepted(line)
         THEN [st EXCEPT !.imports = @ \cup {Strip(line)}]
         ELSE st
    ELSE IF StartsWith(Strip(line), <<"@">>)
    THEN DecoratorStep(st, line)
    ELSE IF StartsWith(line, <<"def ", "test_">>)
    THEN DefStep(st, line)
    ELSE IF st.in_function
    THEN IF /\ line # <<>>
            /\ ~IsSpace(line[1])
            /\ ~StartsWithAny(line, {<<"@">>, <<"#">>})
         THEN [st EXCEPT
                 !.functions = IF st.current_function # <<>> /\ HasText(st.current_function)
                               THEN Append(@, st.current_function)
                               ELSE @,
                 !.current_function = <<>>,
                 !.in_function = FALSE,
                 !.decorator_lines = <<>>,
                 !.imports = IF IsImportLine(line) /\ ImportAccepted(line)
                             THEN @ \cup {Strip(line)}
                             ELSE @]
         ELSE [st EXCEPT !.current_function = Append(@, line)]
    ELSE st

\* The loop over the lines, in document order.
RECURSIVE ParseLines(_, _)
ParseLines(st, lines) ==
    IF lines = <<>> THEN st ELSE ParseLines(ParseLine(st, Head(lines)), Tail(lines))

\* After the loop: the last block is kept only when it is complete.
ParseEnd(st) ==
    IF /\ st.current_function # <<>>
       /\ HasText(st.current_function)
       /\ IsComplete(st.current_function)
    THEN Append(st.functions, st.current_function)
    ELSE st.functions

\* The index of the first line of a block that starts with "def test_", 0 if none.
RECURSIVE DefLineIndex(_, _)
DefLineIndex(block, i) ==
    IF i > Len(block) THEN 0
    ELSE IF StartsWith(block[i], <<"def ", "test_">>) THEN i
    ELSE DefLineIndex(block, i + 1)

\* func_name = line.split("(")[0].replace("def ", "")
FuncName(line) == Replace(Split(line, <<"(">>)[1], <<"def ">>, <<>>)

\* Remove duplicate functions (same name): the first block of a name is kept.
RECURSIVE UniqueFunctions(_, _)
UniqueFunctions(functions, seen_names) ==
    IF functions = <<>> THEN <<>>
    ELSE LET func == Head(functions)
             k    == DefLineIndex(func, 1)
         IN  IF k = 0 THEN UniqueFunctions(Tail(functions), seen_names)
             ELSE IF FuncName(func[k]) \in seen_names
             THEN UniqueFunctions(Tail(functions), seen_names)
             ELSE <<func>> \o UniqueFunctions(Tail(functions),
                                              seen_names \cup {FuncName(func[k])})

\* The blocks collected by the scan, before the duplicates are removed.
CollectedFunctions(test_code) ==
    ParseEnd(ParseLines(ParserInit, StripText(test_code)))

\* extract_imports_and_functions(test_code): [imports, functions]
extract_imports_and_functions(test_code) ==
    LET st == ParseLines(ParserInit, StripText(test_code))
    IN  [imports |-> st.imports,
         functions |-> UniqueFunctions(ParseEnd(st), {})]

----------------------------------------------------------------------------
(* Import classifier and deduplicator: refine_local_imports                *)

\* placeholder_modules, in list order; the last entry is None unless the
\* file stem itself starts with "test_".
placeholder_modules(file_stem) ==
    << <<"some_module">>, <<"your_module">>, <<"module_name">>, <<"my_module">>,
       <<"sample_module">>, <<"<", "module_name", ">">>, <<"path.to.module">>,
       <<"test_">> \o file_stem >>
    \o (IF StartsWith(file_stem, <<"test_">>) THEN <<file_stem>> ELSE <<>>)

\* for placeholder in placeholder_modules: imp = imp.replace(placeholder, path)
RECURSIVE ReplacePlaceholderModules(_, _, _)
ReplacePlaceholderModules(imp, phs, path) ==
    IF phs = <<>> THEN imp
    ELSE ReplacePlaceholderModules(
             IF Head(phs) # <<>> /\ Contains(imp, Head(phs))
             THEN Replace(imp, Head(phs), path)
             ELSE imp,
             Tail(phs), path)

\* The inner loop over the items of one "from X import A, B": acc is
\* [refined, imported_items].
RECURSIVE AddItems(_, _, _)
AddItems(acc, from_part, items) ==
    IF items = <<>> THEN acc
    ELSE LET item == Strip(Head(items))
             import_key == from_part \o <<".">> \o item
         IN  IF item # <<>> /\ item # <<"*">> /\ import_key \notin acc.imported_items
             THEN AddItems(
                    [refined |-> acc.refined
                         \cup {<<"from ">> \o from_part \o <<" ", "import ">> \o item},
                     imported_items |-> acc.imported_items \cup {import_key}],
                    from_part, Tail(items))
             ELSE AddItems(acc, from_part, Tail(items))

\* The self-import test with nothing skipped.
SkipsTestModule_Never(from_part) == FALSE

\* Skip if it's trying to import from the test file itself.
SkipsTestModule(from_part) == Contains(from_part, <<"test_">>)

\* The body of the loop over the local imports, for one import.
RefineOne(acc, imp0, module_import_path, file_stem) ==
    LET phs == placeholder_modules(file_stem)
        phSet == {phs[i] : i \in 1..Len(phs)}
    IN  IF Contains(imp0, <<")">>) /\ ~Contains(imp0, <<"import ">>) THEN acc
        ELSE IF Contains(imp0, <<"TODO:">>) \/ Contains(imp0, <<"#">>) THEN acc
        ELSE LET imp == ReplacePlaceholderModules(imp0, phs, module_import_path)
             IN  IF Contains(imp, <<"from ">>) /\ Contains(imp, <<" ", "import ">>)
                 THEN LET parts == Split(imp, <<" ", "import ">>)
                      IN  IF Len(parts) # 2 THEN acc
                          ELSE LET from_part0 == Strip(Replace(parts[1], <<"from ">>, <<>>))
                                   import_part == Strip(parts[2])
                                   from_part ==
                                       IF from_part0 \in phSet \/ from_part0 = module_import_path
                                       THEN module_import_path
                                       ELSE from_part0
                               IN  IF SkipsTestModule(from_part0) THEN acc
                                   ELSE AddItems(acc, from_part, Split(import_part, <<",">>))
                 ELSE IF StartsWith(imp, <<"import ">>)
                 THEN LET module == Strip(Replace(imp, <<"import ">>, <<>>))
                      IN  IF module \notin phSet /\ ~Contains(module, <<"test_">>)
                          THEN [acc EXCEPT !.refined = @ \cup {imp}]
                          ELSE acc
                 ELSE acc

RECURSIVE RefineLoop(_, _, _, _)
RefineLoop(acc, imports, module_import_path, file_stem) ==
    IF imports = <<>> THEN acc
    ELSE RefineLoop(RefineOne(acc, Head(imports), module_import_path, file_stem),
                    Tail(imports), module_import_path, file_stem)

\* The set refined at the end of refine_local_imports, before it is sorted:
\* the wildcard import is added when no refined import names the module.
RefinedSet(imports, module_import_path, file_stem) ==
    LET refined == RefineLoop([refined |-> {}, imported_items |-> {}],
                              imports, module_import_path, file_stem).refined
    IN  IF ~\E imp \in refined : Contains(imp, module_import_path)
        THEN refined \cup {<<"from ">> \o module_import_path \o <<" ", "import ", "*">>}
        ELSE refined

----------------------------------------------------------------------------
(* sorted(): the order of Python strings                                   *)

\* The tokens of the model in the order of their text (code-point order).
TokenOrder ==
    << " ", IND, " module.\"\"\"", "\"\"\"Tests for ", "#", "(", ")", "*", ",",
       ".", ".fixture", ":", "<", ">", "@", "TODO:", "_mock", "a",
       "ad", "assert", "b", "bar", "collections", "datetime", "def ", "django",
       "fastapi", "flask", "foo", "from ", "functools", "import ", "itertools",
       "json", "mock", "mod", "module_name", "my_module", "numpy", "os",
       "pandas", "pass", "patch", "path.to.module", "pathlib", "pkg.mod",
       "print(1)", "pytest", "python", "raise", "re", "requests",
       "sample_module", "some_module", "sys", "test_", "typing", "unittest",
       "x = 1", "your_module", FENCE >>

TokenRank(tok) == CHOOSE i \in 1..Len(TokenOrder) : TokenOrder[i] = tok

\* a < b for two lines: lexicographic, a proper prefix first.
RECURSIVE LineLess(_, _)
LineLess(a, b) ==
    IF b = <<>> THEN FALSE
    ELSE IF a = <<>> THEN TRUE
    ELSE IF Head(a) = Head(b) THEN LineLess(Tail(a), Tail(b))
    ELSE TokenRank(Head(a)) < TokenRank(Head(b))

\* sorted(lines) for a set of lines.
RECURSIVE Sorted(_)
Sorted(lines) ==
    IF lines = {} THEN <<>>
    ELSE LET least == CHOOSE x \in lines : \A y \in lines \ {x} : LineLess(x, y)
         IN  <<least>> \o Sorted(lines \ {least})

\* sorted(list(refined)) at the end of refine_local_imports.
refine_local_imports(imports, module_import_path, file_stem) ==
    Sorted(RefinedSet(imports, module_import_path, file_stem))

----------------------------------------------------------------------------
(* Assembler: combine_test_code                                            *)

stdlib_modules ==
    { <<"unittest">>, <<"datetime">>, <<"os">>, <<"sys">>, <<"json">>, <<"typing">>,
      <<"collections">>, <<"itertools">>, <<"functools">>, <<"pathlib">>, <<"re">> }

third_party_modules ==
    { <<"pytest">>, <<"mock">>, <<"unittest", ".", "mock">>, <<"numpy">>, <<"pandas">>,
      <<"requests">>, <<"flask">>, <<"django">>, <<"fastapi">> }

is_stdlib(imp) == \E module \in stdlib_modules : Contains(imp, module)
is_third_party(imp) == \E module \in third_party_modules : Contains(imp, module)

\* An import that passes the malformed-import test of the loop.
WellFormedImport(imp) == StartsWithAny(imp, {<<"import ">>, <<"from ">>})

\* elif module_import_path in imp or imp.startswith(f"from {module_import_path}")
NamesModule(imp, module_import_path) ==
    \/ Contains(imp, module_import_path)
    \/ StartsWith(imp, <<"from ">> \o module_import_path)

\* The bucket the classification loop puts an import in.
Bucket(imp, module_import_path) ==
    IF is_stdlib(imp) THEN "stdlib"
    ELSE IF is_third_party(imp) THEN "third_party"
    ELSE IF NamesModule(imp, module_import_path) THEN "local"
    ELSE "third_party"

\* The loop over sorted(imports), for one bucket: malformed imports are skipped.
RECURSIVE SelectBucket(_, _, _)
SelectBucket(sorted_imports, module_import_path, bucket) ==
    IF sorted_imports = <<>> THEN <<>>
    ELSE LET imp == Head(sorted_imports)
         IN  (IF WellFormedImport(imp) /\ Bucket(imp, module_import_path) = bucket
              THEN <<imp>> ELSE <<>>)
             \o SelectBucket(Tail(sorted_imports), module_import_path, bucket)

BucketList(imports, module_import_path, bucket) ==
    SelectBucket(Sorted(imports), module_import_path, bucket)

stdlib_imports(imports, module_import_path) ==
    BucketList(imports, module_import_path, "stdlib")

\* Always include pytest if not already present.
third_party_imports(imports, module_import_path) ==
    LET found == BucketList(imports, module_import_path, "third_party")
    IN  IF ~\E i \in 1..Len(found) : Contains(found[i], <<"pytest">>)
        THEN << <<"import ", "pytest">> >> \o found
        ELSE found

local_imports(imports, module_import_path) ==
    BucketList(imports, module_import_path, "local")

\* A run of one-line parts of one kind.
PartsOf(kind, lines) == [i \in 1..Len(lines) |-> [kind |-> kind, text |-> <<lines[i]>>]]

BlankPart == [kind |-> "blank", text |-> EmptyText]

\* The parts of the test functions: two blank lines between two functions.
RECURSIVE FunctionParts(_, _)
FunctionParts(test_functions, i) ==
    IF i > Len(test_functions) THEN <<>>
    ELSE (IF i > 1 THEN <<BlankPart, BlankPart>> ELSE <<>>)
         \o <<[kind |-> "function", text |-> test_functions[i]]>>
         \o FunctionParts(test_functions, i + 1)

\* One import section: its lines and a blank line, nothing when it is empty.
SectionParts(kind, lines) ==
    IF lines # <<>> THEN PartsOf(kind, lines) \o <<BlankPart>> ELSE <<>>

\* The import sections with the local section put before the third-party one.
ImportSections_LocalFirst(std, third, local) ==
    SectionParts("stdlib", std) \o SectionParts("local", local)
    \o SectionParts("third_party", third)

\* The import sections in file order: standard library, third-party, local.
ImportSections(std, third, local) ==
    SectionParts("stdlib", std) \o SectionParts("third_party", third)
    \o SectionParts("local", local)

\* content_parts, each part tagged with the section it belongs to.
content_parts(imports, test_functions, module_name, module_import_path) ==
    LET std   == stdlib_imports(imports, module_import_path)
        third == third_party_imports(imports, module_import_path)
        local == local_imports(imports, module_import_path)
    IN  <<[kind |-> "docstring",
           text |-> << <<"\"\"\"Tests for ">> \o module_name \o <<" module.\"\"\"">> >>],
          BlankPart>>
        \o ImportSections(std, third,
                          IF local # <<>>
                          THEN refine_local_imports(local, module_import_path, module_name)
                          ELSE <<>>)
        \o <<BlankPart>>
        \o FunctionParts(test_functions, 1)
        \o <<BlankPart>>

\* The section of every line of the file, in file order.
RECURSIVE LineKinds(_)
LineKinds(parts) ==
    IF parts = <<>> THEN <<>>
    ELSE [i \in 1..Len(Head(parts).text) |-> Head(parts).kind] \o LineKinds(Tail(parts))

\* "\n".join(content_parts)
combine_test_code(imports, test_functions, module_name, module_import_path) ==
    LET parts == content_parts(imports, test_functions, module_name, module_import_path)
    IN  JoinLines([i \in 1..Len(parts) |-> parts[i].text])

----------------------------------------------------------------------------
(* Append mode: append_test_to_file                                        *)

\* imp.split(" import ")[0].replace("from ", "").strip()
ModuleOf(imp) == Strip(Replace(Split(imp, <<" ", "import ">>)[1], <<"from ">>, <<>>))

\* The imports the loop over existing_imports can stop at.
PathCandidates(existing_imports) ==
    {imp \in existing_imports :
        /\ Contains(imp, <<"from ">>)
        /\ Contains(imp, <<" ", "import ">>)
        /\ ~Contains(imp, <<"pytest">>)}

\* The values module_import_path can take.  existing_imports is a set of
\* strings: its iteration order differs from run to run, so the loop stops at
\* any of the candidates; without a candidate, or when the module text of the
\* one taken is empty, the fallback "your_module" is used.
ModulePathChoices(existing_imports) ==
    IF PathCandidates(existing_imports) = {} THEN { <<"your_module">> }
    ELSE {IF ModuleOf(imp) = <<>> THEN <<"your_module">> ELSE ModuleOf(imp) :
             imp \in PathCandidates(existing_imports)}

\* all_functions = existing_functions + new_functions
AppendedFunctions(existing_content, test_code) ==
    extract_imports_and_functions(existing_content).functions
    \o extract_imports_and_functions(test_code).functions

\* The text written to an existing test file whose stem is test_file_stem,
\* for one value of module_import_path.
append_test_to_file(test_file_stem, existing_content, test_code, module_import_path) ==
    combine_test_code(
        extract_imports_and_functions(existing_content).imports
            \cup extract_imports_and_functions(test_code).imports,
        AppendedFunctions(existing_content, test_code),
        Replace(test_file_stem, <<"test_">>, <<>>),
        module_import_path)

----------------------------------------------------------------------------
(* parser.py: source_code_analysis on the syntax tree of a source file.    *)
(* A tree is a record [kinds, parent]: the statements 1..Len(kinds) are     *)
(* numbered in document order, kinds[i] is the class of the node, and      *)
(* parent[i] is the node whose body holds it, 0 for the Module node.       *)
(* The name of the definition at node i is i.                               *)

Module == 0

\* No text: Python None where a text is optional.
None == [kind |-> "None", name |-> 0, body |-> <<>>]

\* ast.iter_child_nodes(node): the statements of its body, in document order.
RECURSIVE ChildrenFrom(_, _, _)
ChildrenFrom(tree, node, i) ==
    IF i > Len(tree.kinds) THEN <<>>
    ELSE (IF tree.parent[i] = node THEN <<i>> ELSE <<>>) \o ChildrenFrom(tree, node, i + 1)

iter_child_nodes(tree, node) == ChildrenFrom(tree, node, 1)

\* ast.walk(tree): todo = deque([node]); node = todo.popleft();
\* todo.extend(iter_child_nodes(node)); yield node.
RECURSIVE WalkQueue(_, _)
WalkQueue(tree, todo) ==
    IF todo = <<>> THEN <<>>
    ELSE <<Head(todo)>> \o WalkQueue(tree, Tail(todo) \o iter_child_nodes(tree, Head(todo)))

walk(tree) == WalkQueue(tree, <<Module>>)

\* isinstance(node, (ast.Import, ast.ImportFrom))
ImportKinds == {"Import", "ImportFrom"}

\* ast.unparse(node): the text of the node, its whole body included. A
\* definition is named after its node; the import statements of one kind all
\* have the same text, wherever they stand.
RECURSIVE unparse(_, _)
unparse(tree, node) ==
    LET body == iter_child_nodes(tree, node)
    IN  [kind |-> tree.kinds[node],
         name |-> IF tree.kinds[node] \in ImportKinds THEN 0 ELSE node,
         body |-> [k \in 1..Len(body) |-> unparse(tree, body[k])]]

\* parent_map.get(node): the node that has it among its children.
parent_map(tree, node) ==
    CHOOSE parent \in 0..Len(tree.kinds) :
        \E k \in 1..Len(iter_child_nodes(tree, parent)) :
            iter_child_nodes(tree, parent)[k] = node

\* The parent class looked up through every enclosing node.
RECURSIVE EnclosingClass(_, _)
EnclosingClass(tree, node) ==
    LET parent == parent_map(tree, node)
    IN  IF parent = Module THEN Module
        ELSE IF tree.kinds[parent] = "ClassDef" THEN parent
        ELSE EnclosingClass(tree, parent)

parent_class_code_Enclosing(tree, node) ==
    IF EnclosingClass(tree, node) # Module
    THEN unparse(tree, EnclosingClass(tree, node)) ELSE None

\* parent = parent_map.get(node);
\* if parent and isinstance(parent, ast.ClassDef): ast.unparse(parent)
parent_class_code(tree, node) ==
    LET parent == parent_map(tree, node)
    IN  IF parent # Module /\ tree.kinds[parent] = "ClassDef"
        THEN unparse(tree, parent) ELSE None

\* The loop over ast.walk(tree) that fills functions_analysis.
RECURSIVE AnalyzeNodes(_, _)
AnalyzeNodes(tree, nodes) ==
    IF nodes = <<>> THEN <<>>
    ELSE (IF Head(nodes) # Module /\ tree.kinds[Head(nodes)] = "FunctionDef"
          THEN << [function_name |-> Head(nodes),
                   function_code |-> unparse(tree, Head(nodes)),
                   parent_class_code |-> parent_class_code(tree, Head(nodes))] >>
          ELSE <<>>)
         \o AnalyzeNodes(tree, Tail(nodes))

\* The loop over ast.walk(tree) that fills imports.
RECURSIVE AnalyzeImports(_, _)
AnalyzeImports(tree, nodes) ==
    IF nodes = <<>> THEN <<>>
    ELSE (IF Head(nodes) # Module /\ tree.kinds[Head(nodes)] \in ImportKinds
          THEN <<unparse(tree, Head(nodes))>>
          ELSE <<>>)
         \o AnalyzeImports(tree, Tail(nodes))

\* imports_code = "\n".join(imports): the lines of the first element
\* source_code_analysis returns.
imports_code(tree) == AnalyzeImports(tree, walk(tree))

\* The list of function descriptors source_code_analysis returns, its second
\* element, for a source file that parses.
source_code_analysis(tree) == AnalyzeNodes(tree, walk(tree))

----------------------------------------------------------------------------
(* Inputs                                                                  *)

\* Bounds of the model.
MaxLines == 3
MaxImports == 2
MaxBlocks == 2
MaxFuncs == 2
MaxAppends == 2
MaxNodes == 4
MaxFiles == 2
MaxScan == 4

\* The source modules: file stem, import path from
\* calculate_import_path_simple, and the name of the function under test.
Modules ==
    { [stem |-> <<"foo">>, path |-> <<"foo">>, function_name |-> <<"foo">>],
      [stem |-> <<"mod">>, path |-> <<"pkg.mod">>, function_name |-> <<"foo">>] }

\* Lines a generation can hold.
LFromYour  == <<"from ", "your_module", " ", "import ", "foo">>
LFromTest  == <<"from ", "test_", "foo", " ", "import ", "bar">>
LDefA      == <<"def ", "test_", "a", "(", ")", ":">>
LDefASpace == <<"def ", "test_", "a", " ", "(", ")", ":">>
LDefB      == <<"def ", "test_", "b", "(", ")", ":">>
LAssert    == <<IND, "assert", " ", "foo", "(", ")">>
LPatch     == <<IND, "patch", "(", "your_module", ".", "foo", ")">>
LDecorator == <<"@", "pytest", ".fixture">>
LNoise     == <<"print(1)">>
LBlank     == <<>>
LFromBar   == <<"from ", "bar", " ", "import ", "bar">>

GenLines ==
    {LFromYour, LFromTest, LDefA, LDefASpace, LAssert, LPatch, LDecorator, LNoise, LBlank}

LDecoratorIn == <<IND, "@", "pytest", ".fixture">>
LDefHelper   == <<"def ", "helper", "(", ")", ":">>

\* Lines the scan of extract_imports_and_functions is followed over.
ScanLines ==
    {LDecorator, LDecoratorIn, LDefA, LDefHelper, LAssert, LNoise, LFromBar}

\* The sequences of at most n elements of S.
RECURSIVE SeqsUpTo(_, _)
SeqsUpTo(S, n) ==
    IF n = 0 THEN { <<>> }
    ELSE LET shorter == SeqsUpTo(S, n - 1)
         IN  shorter \cup {Append(q, x) : q \in {r \in shorter : Len(r) = n - 1}, x \in S}

\* lines = test_code.strip().split("\n") of the texts of at most n lines.
ScanTexts(n) == {StripText(t) : t \in SeqsUpTo(ScanLines, n) \ { <<>> }}

\* A generation inside a markdown fence.
Fenced(body) == << <<FENCE, "python">> >> \o body \o << <<FENCE>> >>

\* The raw generations: up to MaxLines lines, bare or fenced.
RawTexts ==
    LET bodies == {IF b = <<>> THEN EmptyText ELSE b : b \in SeqsUpTo(GenLines, MaxLines)}
    IN  bodies \cup {Fenced(b) : b \in bodies}

\* Import statements handed to combine_test_code directly, for module m.
ImportLines(m) ==
    { <<"from ">> \o m.path \o <<" ", "import ", "foo">>,
      <<"from ">> \o m.path \o <<" ", "import ", "foo", ",", " ", "bar">>,
      <<"from ", "test_">> \o m.path \o <<" ", "import ", "bar">>,
      <<"from ">> \o m.path \o <<" ", "import ", "re", "ad">>,
      LFromYour,
      <<"import ", "os">>,
      <<"import ", "pytest">>,
      <<"import ", "pytest", "_mock">> }

\* The import sets of at most MaxImports statements.
ImportSets(m) == {I \in SUBSET ImportLines(m) : Cardinality(I) <= MaxImports}

\* Function blocks handed to combine_test_code directly.
Blocks == { <<LDefA, LAssert>>, <<LDefASpace, LPatch>> }

BlockLists == SeqsUpTo(Blocks, MaxBlocks)

\* The classes of the statements of a source file: class, def, async def
\* and any other compound statement.
NodeKinds == {"ClassDef", "FunctionDef", "AsyncFunctionDef", "If", "Import", "ImportFrom"}

\* The node and the nodes that enclose it, the Module node included.
RECURSIVE AncestorsOrSelf(_, _)
AncestorsOrSelf(parent, node) ==
    IF node = Module THEN {Module}
    ELSE {node} \cup AncestorsOrSelf(parent, parent[node])

\* The parents the statement after the statements of q can have: the last
\* statement of q or one of the nodes that enclose it.
NextParents(q) == AncestorsOrSelf(q, Len(q))

\* The parent sequences of n statements numbered in document order: a
\* statement follows the previous one inside it, beside it or after one of
\* the statements that enclose it.
RECURSIVE ParentSeqs(_)
ParentSeqs(n) ==
    IF n = 0 THEN { <<>> }
    ELSE UNION { {Append(q, a) : a \in NextParents(q)} : q \in ParentSeqs(n - 1) }

\* The syntax trees of n statements: an import statement has no body.
TreesOf(n) ==
    {t \in [parses : {TRUE}, kinds : [1..n -> NodeKinds], parent : ParentSeqs(n)] :
        \A i \in 1..n :
            t.parent[i] # Module => t.kinds[t.parent[i]] \notin ImportKinds}

\* A source text that ast.parse rejects.
Unparsable == [parses |-> FALSE, kinds |-> <<>>, parent |-> <<>>]

\* The source files the generate command is run on: one that does not parse,
\* one without statements, one function, and a class with a method followed
\* by a function.
SourceFiles ==
    { Unparsable,
      [parses |-> TRUE, kinds |-> <<>>, parent |-> <<>>],
      [parses |-> TRUE, kinds |-> <<"FunctionDef">>, parent |-> <<0>>],
      [parses |-> TRUE, kinds |-> <<"ClassDef", "FunctionDef", "FunctionDef">>,
       parent |-> <<0, 1, 0>>] }

\* What the file_path argument names.
Targets == {"empty", "missing", "file_other", "file_py", "dir"}

\* The generations the per-file loop and the append mode are run on.
Responses ==
    { Fenced(<<LFromYour, LBlank, LDefA, LAssert>>),
      <<LDefA, LAssert>>,
      <<LDefB, LPatch>>,
      <<LDefA, LAssert, LBlank, LBlank, LDefB, LAssert>>,
      <<LFromBar, LDefA, LAssert>>,
      <<LFromBar, LNoise>>,
      EmptyText }

----------------------------------------------------------------------------
(* State                                                                   *)

VARIABLES
    \* process_file and append_test_to_file on one source file
    pc,                 \* "loop", "write", "done"; "idle" under SpecText
    mod,                \* the source module being processed
    nfuncs,             \* len(functions_data)
    idx,                \* functions of the source file processed so far
    all_imports,        \* process_file: all_imports
    all_test_functions, \* process_file: all_test_functions
    file,               \* the text of the test file on disk, NoFile if absent
    fileBlocks,         \* the function blocks the last assembly rendered
    lastOp,             \* what wrote the file last: "none", "create", "append", "raw"
    prevOp,             \* what had written the file before that
    appends,            \* calls of append_test_to_file so far
    prevFile,           \* the file before the last call of append_test_to_file
    lastGen,            \* test_code of the last call of append_test_to_file
    prevGen,            \* test_code of the call before it
    \* one generation through normalizer, parser and assembler
    tpc,                \* "raw", "clean", "parsed", "combined"; "idle" under Spec
    tmod,               \* the module the generation is for
    traw,               \* the raw generation
    tclean,             \* postprocess_test_code_enhanced(traw, ...)
    timports,           \* the imports recovered, or handed to combine directly
    tcollected,         \* the blocks collected by the scan, duplicates included
    tfunctions,         \* the blocks recovered, or handed to combine directly
    tparts,             \* content_parts of the assembled file
    tfile,              \* the assembled file
    \* source_code_analysis on one source file
    apc,                \* "source", "analyzed", "SyntaxError"; "idle" elsewhere
    source,             \* the syntax tree of the source file, or Unparsable
    functions_analysis, \* the descriptors source_code_analysis returned
    analysis_imports,   \* the import statements source_code_analysis returned
    \* the generate command
    gpc,                \* "start", "process_file", "done", "exit0", "exit1", "error"
    target,             \* what file_path names: "file_py", "file_other", "dir", ...
    output_dir,         \* "given" or "empty"
    dry_run,            \* the --dry-run option
    output_nonempty,    \* output_base exists and contains files
    confirm,            \* "not_asked", "accepted", "declined"
    py_files,           \* the Python files file_path names or holds
    cleanups,           \* calls of clean_temp_files
    process_file_calls, \* calls of process_file
    \* further state of one call of process_file
    dir_made,           \* test_dir.mkdir was called
    generation_calls,   \* calls of generate_test_code
    raw_response,       \* process_file: raw_response of the last generation
    writes,             \* calls of test_file_path.write_text in process_file
    \* extract_imports_and_functions, line by line
    ppc,                \* "scan", "done"; "idle" elsewhere
    ptext,              \* lines: the lines of the text scanned
    pline,              \* the lines the loop has processed
    parser,             \* imports, functions, current_function, in_function,
                        \* decorator_lines after those lines
    presult             \* the imports and functions returned

fileVars == <<pc, mod, nfuncs, idx, all_imports, all_test_functions, file, fileBlocks,
              lastOp, prevOp, appends, prevFile, lastGen, prevGen>>

textVars == <<tpc, tmod, traw, tclean, timports, tcollected, tfunctions, tparts, tfile>>

analysisVars == <<apc, source, functions_analysis, analysis_imports>>

commandVars == <<gpc, target, output_dir, dry_run, output_nonempty, confirm, py_files,
                 cleanups, process_file_calls>>

callVars == <<dir_made, generation_calls, raw_response, writes>>

runVars == <<commandVars, callVars>>

parserVars == <<ppc, ptext, pline, parser, presult>>

vars == <<fileVars, textVars, analysisVars, runVars, parserVars>>

\* No test file on disk (a text has at least one line).
NoFile == <<>>

FooModule == [stem |-> <<"foo">>, path |-> <<"foo">>, function_name |-> <<"foo">>]

FileIdle ==
    /\ pc = "idle" /\ mod = FooModule /\ nfuncs = 0 /\ idx = 0
    /\ all_imports = {} /\ all_test_functions = <<>>
    /\ file = NoFile /\ fileBlocks = <<>> /\ lastOp = "none" /\ prevOp = "none"
    /\ appends = 0
    /\ prevFile = NoFile /\ lastGen = EmptyText /\ prevGen = EmptyText

TextIdle ==
    /\ tpc = "idle" /\ tmod = FooModule /\ traw = EmptyText /\ tclean = EmptyText
    /\ timports = {} /\ tcollected = <<>> /\ tfunctions = <<>>
    /\ tparts = <<>> /\ tfile = NoFile

AnalysisIdle ==
    /\ apc = "idle" /\ source = Unparsable /\ functions_analysis = <<>>
    /\ analysis_imports = <<>>

\* process_file called directly, not in dry run.
CommandIdle ==
    /\ gpc = "idle" /\ target = "file_py" /\ output_dir = "given" /\ dry_run = FALSE
    /\ output_nonempty = FALSE /\ confirm = "not_asked" /\ py_files = 1
    /\ cleanups = 0 /\ process_file_calls = 0

CallIdle ==
    /\ dir_made = FALSE /\ generation_calls = 0 /\ raw_response = EmptyText
    /\ writes = 0

ParserIdle ==
    /\ ppc = "idle" /\ ptext = EmptyText /\ pline = 0 /\ parser = ParserInit
    /\ presult = [imports |-> {}, functions |-> <<>>]

----------------------------------------------------------------------------
(* process_file: the loop over the functions of one source file, the write *)
(* of the combined test file, and append_test_to_file on that file         *)

Init ==
    /\ pc = "loop"
    /\ mod \in Modules
    /\ nfuncs \in 1..MaxFuncs
    /\ idx = 0
    /\ all_imports = {}
    /\ all_test_functions = <<>>
    /\ file = NoFile
    /\ fileBlocks = <<>>
    /\ lastOp = "none"
    /\ prevOp = "none"
    /\ appends = 0
    /\ prevFile = NoFile
    /\ lastGen = EmptyText
    /\ prevGen = EmptyText
    /\ TextIdle
    /\ AnalysisIdle
    /\ CommandIdle
    /\ CallIdle
    /\ ParserIdle

\* The write reached after the first function of the file.
AfterFunction_WriteFirst(processed, total) == "write"

\* for func_data in functions_data: ... ; the write follows the loop.
AfterFunction(processed, total) == IF processed = total THEN "write" ELSE "loop"

\* valid_functions = [f for f in test_functions if f.strip() and "def test_" in f]
RECURSIVE valid_functions(_)
valid_functions(test_functions) ==
    IF test_functions = <<>> THEN <<>>
    ELSE (IF HasText(Head(test_functions))
             /\ TextContains(Head(test_functions), <<"def ", "test_">>)
          THEN <<Head(test_functions)>> ELSE <<>>)
         \o valid_functions(Tail(test_functions))

\* all_imports.update(test_imports) whatever the generation held.
UpdatedImports_Always(imports, test_imports, valid) == imports \cup test_imports

\* if valid_functions: all_imports.update(test_imports)
UpdatedImports(imports, test_imports, valid) ==
    IF valid # <<>> THEN imports \cup test_imports ELSE imports

\* One iteration of the loop: the generation for one function is
\* normalized, parsed and, when it holds a valid test, accumulated.
ProcessFunction ==
    /\ pc = "loop"
    /\ idx < nfuncs
    /\ ~dry_run
    /\ \E response \in Responses :
          LET clean_code == postprocess_test_code_enhanced(
                                response, mod.function_name, mod.path)
              extracted == extract_imports_and_functions(clean_code)
              valid == valid_functions(extracted.functions)
          IN  /\ raw_response' = response
              /\ all_imports' = UpdatedImports(all_imports, extracted.imports, valid)
              /\ all_test_functions' = all_test_functions \o valid
    /\ generation_calls' = generation_calls + 1
    /\ idx' = idx + 1
    /\ pc' = AfterFunction(idx + 1, nfuncs)
    /\ UNCHANGED <<mod, nfuncs, file, fileBlocks, lastOp, prevOp, appends, prevFile,
                   lastGen, prevGen>>
    /\ UNCHANGED textVars
    /\ UNCHANGED analysisVars
    /\ UNCHANGED <<commandVars, dir_made, writes>>
    /\ UNCHANGED parserVars

\* After the loop: the combined test file is written when a test was generated.
WriteTestFile ==
    /\ pc = "write"
    /\ pc' = "done"
    /\ IF ~dry_run /\ all_test_functions # <<>>
       THEN /\ file' = combine_test_code(all_imports, all_test_functions,
                                         mod.stem, mod.path)
            /\ fileBlocks' = all_test_functions
            /\ lastOp' = "create"
            /\ writes' = writes + 1
       ELSE UNCHANGED <<file, fileBlocks, lastOp, writes>>
    /\ UNCHANGED <<mod, nfuncs, idx, all_imports, all_test_functions, prevOp, appends,
                   prevFile, lastGen, prevGen>>
    /\ UNCHANGED textVars
    /\ UNCHANGED analysisVars
    /\ UNCHANGED <<commandVars, dir_made, generation_calls, raw_response>>
    /\ UNCHANGED parserVars

\* append_test_to_file(test_<stem>.py, test_code, function_name)
AppendTest ==
    /\ pc = "done"
    /\ appends < MaxAppends
    /\ \E test_code \in Responses :
          /\ IF file # NoFile
             THEN \E module_import_path \in
                        ModulePathChoices(extract_imports_and_functions(file).imports) :
                    /\ file' = append_test_to_file(<<"test_">> \o mod.stem, file,
                                                   test_code, module_import_path)
                    /\ fileBlocks' = AppendedFunctions(file, test_code)
                    /\ lastOp' = "append"
             ELSE /\ file' = test_code
                  /\ fileBlocks' = <<>>
                  /\ lastOp' = "raw"
          /\ lastGen' = test_code
    /\ prevFile' = file
    /\ prevOp' = lastOp
    /\ prevGen' = lastGen
    /\ appends' = appends + 1
    /\ UNCHANGED <<pc, mod, nfuncs, idx, all_imports, all_test_functions>>
    /\ UNCHANGED textVars
    /\ UNCHANGED analysisVars
    /\ UNCHANGED runVars
    /\ UNCHANGED parserVars

Next == ProcessFunction \/ WriteTestFile \/ AppendTest

Spec == Init /\ [][Next]_vars

----------------------------------------------------------------------------
(* One generation through the normalizer, the recovery parser and the      *)
(* assembler; combine_test_code is also applied to imports and blocks      *)
(* handed to it directly                                                   *)

InitText ==
    /\ FileIdle
    /\ AnalysisIdle
    /\ CommandIdle
    /\ CallIdle
    /\ tmod \in Modules
    /\ tclean = EmptyText
    /\ tcollected = <<>>
    /\ tparts = <<>>
    /\ tfile = NoFile
    /\ \/ /\ tpc = "raw"
          /\ traw \in RawTexts
          /\ timports = {}
          /\ tfunctions = <<>>
       \/ /\ tpc = "direct"
          /\ traw = EmptyText
          /\ timports \in ImportSets(tmod)
          /\ tfunctions \in BlockLists
    /\ ParserIdle

Normalize ==
    /\ tpc = "raw"
    /\ tclean' = postprocess_test_code_enhanced(traw, tmod.function_name, tmod.path)
    /\ tpc' = "clean"
    /\ UNCHANGED <<tmod, traw, timports, tcollected, tfunctions, tparts, tfile>>
    /\ UNCHANGED fileVars
    /\ UNCHANGED analysisVars
    /\ UNCHANGED runVars
    /\ UNCHANGED parserVars

Extract ==
    /\ tpc = "clean"
    /\ LET extracted == extract_imports_and_functions(tclean)
       IN  /\ timports' = extracted.imports
           /\ tfunctions' = extracted.functions
    /\ tcollected' = CollectedFunctions(tclean)
    /\ tpc' = "parsed"
    /\ UNCHANGED <<tmod, traw, tclean, tparts, tfile>>
    /\ UNCHANGED fileVars
    /\ UNCHANGED analysisVars
    /\ UNCHANGED runVars
    /\ UNCHANGED parserVars

Combine ==
    /\ tpc \in {"parsed", "direct"}
    /\ tparts' = content_parts(timports, tfunctions, tmod.stem, tmod.path)
    /\ tfile' = combine_test_code(timports, tfunctions, tmod.stem, tmod.path)
    /\ tpc' = "combined"
    /\ UNCHANGED <<tmod, traw, tclean, timports, tcollected, tfunctions>>
    /\ UNCHANGED fileVars
    /\ UNCHANGED analysisVars
    /\ UNCHANGED runVars
    /\ UNCHANGED parserVars

NextText == Normalize \/ Extract \/ Combine

SpecText == InitText /\ [][NextText]_vars

----------------------------------------------------------------------------
(* source_code_analysis on one source file                                 *)

InitAnalysis ==
    /\ FileIdle
    /\ TextIdle
    /\ CommandIdle
    /\ CallIdle
    /\ apc = "source"
    /\ \/ source = Unparsable
       \/ \E n \in 0..MaxNodes : source \in TreesOf(n)
    /\ functions_analysis = <<>>
    /\ analysis_imports = <<>>
    /\ ParserIdle

\* tree = ast.parse(source_code) succeeds and the descriptors are returned.
AnalyzeSource ==
    /\ apc = "source"
    /\ source.parses
    /\ functions_analysis' = source_code_analysis(source)
    /\ analysis_imports' = imports_code(source)
    /\ apc' = "analyzed"
    /\ UNCHANGED source
    /\ UNCHANGED <<fileVars, textVars, runVars>>
    /\ UNCHANGED parserVars

\* tree = ast.parse(source_code) raises SyntaxError.
AnalyzeRaises ==
    /\ apc = "source"
    /\ ~source.parses
    /\ apc' = "SyntaxError"
    /\ UNCHANGED <<source, functions_analysis, analysis_imports>>
    /\ UNCHANGED <<fileVars, textVars, runVars>>
    /\ UNCHANGED parserVars

NextAnalysis == AnalyzeSource \/ AnalyzeRaises

SpecAnalysis == InitAnalysis /\ [][NextAnalysis]_vars

----------------------------------------------------------------------------
(* The generate command on one file_path argument, with process_file       *)
(* followed through its analysis, its loop and its write                   *)

\* The test file an earlier run left at test_file_path.
ExistingFile == <<LDefB, LAssert>>

InitRun ==
    /\ pc = "idle"
    /\ mod \in Modules
    /\ nfuncs = 0 /\ idx = 0
    /\ all_imports = {} /\ all_test_functions = <<>>
    /\ file \in {NoFile, ExistingFile}
    /\ fileBlocks = <<>> /\ lastOp = "none" /\ prevOp = "none"
    /\ appends = 0
    /\ prevFile = NoFile /\ lastGen = EmptyText /\ prevGen = EmptyText
    /\ TextIdle
    /\ apc = "idle" /\ source \in SourceFiles /\ functions_analysis = <<>>
    /\ analysis_imports = <<>>
    /\ gpc = "start"
    /\ target \in Targets
    /\ output_dir \in {"given", "empty"}
    /\ dry_run \in BOOLEAN
    /\ output_nonempty \in BOOLEAN
    /\ confirm = "not_asked"
    /\ py_files \in (CASE target = "dir" -> 0..MaxFiles
                        [] target = "file_py" -> {1}
                        [] OTHER -> {0})
    /\ cleanups = 0
    /\ process_file_calls = 0
    /\ CallIdle
    /\ ParserIdle

\* The single-file branch with the directory message in its place.
Branch_NotImplemented(path) == "exit1"

\* if path.is_file(): (.py or exit 1) elif path.is_dir(): exit 1 else: exit 1
Branch(path) == IF path = "file_py" THEN "process_file" ELSE "exit1"

\* The overwrite confirmation asked in dry run as well.
AsksConfirmation_AlsoDryRun(dry, nonempty) == nonempty

\* if not dry_run: if output_base.exists() and any(output_base.iterdir()):
\* typer.confirm(...)
AsksConfirmation(dry, nonempty) == ~dry /\ nonempty

\* generate, up to the call of process_file or the exit.
GenerateStart ==
    /\ gpc = "start"
    /\ cleanups' = cleanups + 1
    /\ IF target = "empty" \/ output_dir = "empty"
       THEN /\ gpc' = "exit1"
            /\ UNCHANGED <<confirm, process_file_calls, pc>>
       ELSE \E answer \in (IF AsksConfirmation(dry_run, output_nonempty)
                            THEN {"accepted", "declined"} ELSE {"not_asked"}) :
              /\ confirm' = answer
              /\ IF answer = "declined"
                 THEN /\ gpc' = "exit0"
                      /\ UNCHANGED <<process_file_calls, pc>>
                 ELSE IF Branch(target) = "process_file"
                 THEN /\ gpc' = "process_file"
                      /\ process_file_calls' = process_file_calls + 1
                      /\ pc' = "analyze"
                 ELSE /\ gpc' = Branch(target)
                      /\ UNCHANGED <<process_file_calls, pc>>
    /\ UNCHANGED <<mod, nfuncs, idx, all_imports, all_test_functions, file, fileBlocks,
                   lastOp, prevOp, appends, prevFile, lastGen, prevGen>>
    /\ UNCHANGED <<target, output_dir, dry_run, output_nonempty, py_files>>
    /\ UNCHANGED <<textVars, analysisVars, callVars>>
    /\ UNCHANGED parserVars

\* The analysis failure let through to the caller.
AnalysisFailure_Propagates == "raised"

\* except Exception as e: console.print(...); return
AnalysisFailure == "returned"

\* process_file: the source analysis and the two early returns.
AnalyzeFile ==
    /\ pc = "analyze"
    /\ IF ~source.parses
       THEN /\ pc' = AnalysisFailure
            /\ UNCHANGED <<functions_analysis, analysis_imports, nfuncs>>
       ELSE /\ functions_analysis' = source_code_analysis(source)
            /\ analysis_imports' = imports_code(source)
            /\ nfuncs' = Len(source_code_analysis(source))
            /\ pc' = IF source_code_analysis(source) = <<>> THEN "returned" ELSE "mkdir"
    /\ UNCHANGED <<mod, idx, all_imports, all_test_functions, file, fileBlocks,
                   lastOp, prevOp, appends, prevFile, lastGen, prevGen>>
    /\ UNCHANGED <<apc, source>>
    /\ UNCHANGED <<textVars, runVars>>
    /\ UNCHANGED parserVars

\* process_file: test_dir.mkdir(parents=True, exist_ok=True) unless dry_run;
\* the call raises when the directory cannot be created.
MakeTestDir ==
    /\ pc = "mkdir"
    /\ IF dry_run
       THEN /\ pc' = "loop"
            /\ UNCHANGED dir_made
       ELSE \E created \in BOOLEAN :
              /\ dir_made' = created
              /\ pc' = IF created THEN "loop" ELSE "raised"
    /\ UNCHANGED <<mod, nfuncs, idx, all_imports, all_test_functions, file, fileBlocks,
                   lastOp, prevOp, appends, prevFile, lastGen, prevGen>>
    /\ UNCHANGED <<generation_calls, raw_response, writes>>
    /\ UNCHANGED <<textVars, analysisVars, commandVars>>
    /\ UNCHANGED parserVars

\* One iteration of the loop in dry run: only the message is printed.
DryRunFunction ==
    /\ pc = "loop"
    /\ idx < nfuncs
    /\ dry_run
    /\ idx' = idx + 1
    /\ pc' = AfterFunction(idx + 1, nfuncs)
    /\ UNCHANGED <<mod, nfuncs, all_imports, all_test_functions, file, fileBlocks,
                   lastOp, prevOp, appends, prevFile, lastGen, prevGen>>
    /\ UNCHANGED <<textVars, analysisVars, runVars>>
    /\ UNCHANGED parserVars

\* One iteration of the loop in which generate_test_code, or the processing
\* of what it returned, raises: nothing in the loop catches it.
GenerationRaises ==
    /\ pc = "loop"
    /\ idx < nfuncs
    /\ ~dry_run
    /\ generation_calls' = generation_calls + 1
    /\ pc' = "raised"
    /\ UNCHANGED <<mod, nfuncs, idx, all_imports, all_test_functions, file, fileBlocks,
                   lastOp, prevOp, appends, prevFile, lastGen, prevGen>>
    /\ UNCHANGED <<dir_made, raw_response, writes>>
    /\ UNCHANGED <<textVars, analysisVars, commandVars>>
    /\ UNCHANGED parserVars

\* generate after process_file returned: clean_temp_files and the messages.
GenerateFinish ==
    /\ gpc = "process_file"
    /\ pc \in {"done", "returned"}
    /\ cleanups' = cleanups + 1
    /\ gpc' = "done"
    /\ UNCHANGED <<target, output_dir, dry_run, output_nonempty, confirm, py_files,
                   process_file_calls>>
    /\ UNCHANGED <<fileVars, textVars, analysisVars, callVars>>
    /\ UNCHANGED parserVars

\* generate when process_file raised: the exception leaves the command.
GenerateRaises ==
    /\ gpc = "process_file"
    /\ pc = "raised"
    /\ gpc' = "error"
    /\ UNCHANGED <<target, output_dir, dry_run, output_nonempty, confirm, py_files,
                   cleanups, process_file_calls>>
    /\ UNCHANGED <<fileVars, textVars, analysisVars, callVars>>
    /\ UNCHANGED parserVars

NextRun ==
    \/ GenerateStart
    \/ AnalyzeFile
    \/ MakeTestDir
    \/ ProcessFunction
    \/ DryRunFunction
    \/ GenerationRaises
    \/ WriteTestFile
    \/ GenerateFinish
    \/ GenerateRaises

SpecRun == InitRun /\ [][NextRun]_vars

----------------------------------------------------------------------------
(* extract_imports_and_functions followed line by line                     *)

InitParser ==
    /\ FileIdle
    /\ TextIdle
    /\ AnalysisIdle
    /\ CommandIdle
    /\ CallIdle
    /\ ppc = "scan"
    /\ ptext \in ScanTexts(MaxScan)
    /\ pline = 0
    /\ parser = ParserInit
    /\ presult = [imports |-> {}, functions |-> <<>>]

\* for line in lines: one iteration.
ScanLine ==
    /\ ppc = "scan"
    /\ pline < Len(ptext)
    /\ parser' = ParseLine(parser, ptext[pline + 1])
    /\ pline' = pline + 1
    /\ UNCHANGED <<ppc, ptext, presult>>
    /\ UNCHANGED <<fileVars, textVars, analysisVars, runVars>>

\* After the loop: the last block, the duplicates, the return.
ScanEnd ==
    /\ ppc = "scan"
    /\ pline = Len(ptext)
    /\ presult' = [imports |-> parser.imports,
                   functions |-> UniqueFunctions(ParseEnd(parser), {})]
    /\ ppc' = "done"
    /\ UNCHANGED <<ptext, pline, parser>>
    /\ UNCHANGED <<fileVars, textVars, analysisVars, runVars>>

NextParser == ScanLine \/ ScanEnd

SpecParser == InitParser /\ [][NextParser]_vars

----------------------------------------------------------------------------
(* Notions the properties are stated with                                  *)

\* The end of the name that starts at index i of a def line.
RECURSIVE NameEnd(_, _)
NameEnd(line, i) ==
    IF i <= Len(line) /\ line[i] \notin {" ", IND, "(", ":"} THEN NameEnd(line, i + 1) ELSE i

\* The function name a def line declares: the identifier after "def ".
DeclaredNameOfLine(line) == SubSeq(line, 2, NameEnd(line, 2) - 1)

\* The test-function name a block declares (decorator lines come first).
DeclaredName(block) == DeclaredNameOfLine(block[DefLineIndex(block, 1)])

\* No two blocks of the list declare the same name.
DistinctNames(blocks) ==
    \A i, j \in 1..Len(blocks) :
        i < j => DeclaredName(blocks[i]) # DeclaredName(blocks[j])

\* The blocks of the list, in order, without those whose declared name an
\* earlier block of the list declares.
RECURSIVE FirstPerName(_, _)
FirstPerName(blocks, names) ==
    IF blocks = <<>> THEN <<>>
    ELSE IF DeclaredName(Head(blocks)) \in names THEN FirstPerName(Tail(blocks), names)
    ELSE <<Head(blocks)>>
         \o FirstPerName(Tail(blocks), names \cup {DeclaredName(Head(blocks))})

\* The position of a section in the assembled file; 0 for the other lines.
SectionRank(kind) ==
    CASE kind = "stdlib" -> 1
      [] kind = "third_party" -> 2
      [] kind = "local" -> 3
      [] kind = "function" -> 4
      [] OTHER -> 0

\* The section of every line of the assembled file tfile.
tkinds == LineKinds(tparts)

\* An import of a test-file module: from test_<x> import y.
IsTestModuleImport(line) == StartsWith(line, <<"from ", "test_">>)

\* An import statement of the module pytest itself.
ImportsPytest(line) ==
    \/ line = <<"import ", "pytest">>
    \/ StartsWith(line, <<"import ", "pytest", " ">>)
    \/ StartsWith(line, <<"import ", "pytest", ",">>)
    \/ StartsWith(line, <<"from ", "pytest", " ">>)
    \/ StartsWith(line, <<"from ", "pytest", ".">>)

----------------------------------------------------------------------------
(* Properties                                                              *)

\* C1: appending an empty generation to the file combine_test_code produced
\* leaves the file text unchanged, also when it holds two or more blocks.
C1_AppendEmptyIsNoOp ==
    (prevOp = "create" /\ lastOp = "append" /\ lastGen = EmptyText) => file = prevFile

\* C2: append is idempotent: appending the generation G to an existing
\* assembled file and then appending G again gives the same file text as
\* appending G once.
C2_AppendIdempotent ==
    (prevOp = "append" /\ lastOp = "append" /\ lastGen = prevGen) => file = prevFile

\* C3: in every assembled file, written by process_file or by
\* append_test_to_file, no two function blocks declare the same test-function
\* name: of the blocks of one name only the first seen is rendered.
C3_NoDuplicateNames ==
    lastOp \in {"create", "append"} =>
        DistinctNames(fileBlocks) /\ fileBlocks = FirstPerName(fileBlocks, {})

\* C4: the blocks one call of extract_imports_and_functions returns are the
\* collected blocks in scan order with, for each declared test-function name,
\* only the first block collected: at most one block per declared name.
C4_ExtractFirstPerName ==
    tpc = "parsed" => tfunctions = FirstPerName(tcollected, {})

\* C5: every block the recovery parser returns contains an assertion, a pass
\* marker or a raise, however the block was closed.
C5_EveryBlockComplete ==
    tpc = "parsed" => \A i \in 1..Len(tfunctions) : IsComplete(tfunctions[i])

\* C6: in every text combine_test_code produces the standard-library import
\* lines precede the third-party import lines, which precede the local import
\* lines, which precede the first function block; the lines of the standard
\* section are the imports classified standard, and no line of a later section
\* is one.
C6_SectionsOrdered ==
    tpc = "combined" =>
        /\ Len(tkinds) = Len(tfile)
        /\ \A i, j \in 1..Len(tfile) :
              (i < j /\ SectionRank(tkinds[i]) > 0 /\ SectionRank(tkinds[j]) > 0)
                  => SectionRank(tkinds[i]) <= SectionRank(tkinds[j])
        /\ \A i \in 1..Len(tfile) :
              /\ tkinds[i] = "stdlib" => (WellFormedImport(tfile[i]) /\ is_stdlib(tfile[i]))
              /\ tkinds[i] \in {"third_party", "local"}
                    => (WellFormedImport(tfile[i]) /\ ~is_stdlib(tfile[i]))
              /\ tkinds[i] = "local" => ~is_third_party(tfile[i])

\* A file with the three import sections and a function block.
C6_Witness ==
    /\ tpc = "combined"
    /\ \E i, j, k, l \in 1..Len(tfile) :
          /\ tkinds[i] = "stdlib" /\ tkinds[j] = "third_party"
          /\ tkinds[k] = "local" /\ tkinds[l] = "function"

C8_ModuleImported ==
    tpc = "combined" =>
        \E i \in 1..Len(tfile) :
            /\ tkinds[i] \in {"stdlib", "third_party", "local"}
            /\ Contains(tfile[i], tmod.path)

\* C9: every file combine_test_code produces imports pytest itself in its
\* third-party section, whatever the import set.
C9_PytestImported ==
    tpc = "combined" =>
        \E i \in 1..Len(tfile) : tkinds[i] = "third_party" /\ ImportsPytest(tfile[i])

\* The raw generation holds "from your_module import foo" and is normalized
\* with the import path pkg.mod.
C10_Case ==
    /\ tpc = "clean"
    /\ tmod.path = <<"pkg.mod">>
    /\ TextContains(traw, LFromYour)

\* C10: the normalized text holds "from pkg.mod import foo" and no
\* occurrence of your_module anywhere.
C10_NoPlaceholderAnywhere ==
    C10_Case =>
        /\ TextContains(tclean, <<"from ", "pkg.mod", " ", "import ", "foo">>)
        /\ ~TextContains(tclean, <<"your_module">>)

\* C10 for the import forms: the normalized text holds "from pkg.mod import foo" and no
\* occurrence of "from your_module" or "import your_module".
C10_PlaceholderImportsResolved ==
    C10_Case =>
        /\ TextContains(tclean, <<"from ", "pkg.mod", " ", "import ", "foo">>)
        /\ ~TextContains(tclean, <<"from ", "your_module">>)
        /\ ~TextContains(tclean, <<"import ", "your_module">>)

\* The case of C10 where the raw text also names your_module outside an import.
C10_Witness ==
    /\ C10_Case
    /\ TextContains(traw, LPatch)
    /\ TextContains(tclean, <<"from ", "pkg.mod", " ", "import ", "foo">>)

\* The number of lines of the text that start a test function.
RECURSIVE DefLineCount(_)
DefLineCount(text) ==
    IF text = <<>> THEN 0
    ELSE (IF StartsWith(Head(text), <<"def ", "test_">>) THEN 1 ELSE 0)
         + DefLineCount(Tail(text))

\* A fenced generation with one complete test function that calls the function
\* under test, holding no import line, has gone through the normalizer, the
\* recovery parser and the assembler.
C11_Case ==
    /\ tpc = "combined"
    /\ Len(traw) >= 2
    /\ Head(traw) = <<FENCE, "python">>
    /\ traw[Len(traw)] = <<FENCE>>
    /\ DefLineCount(traw) = 1
    /\ \E i \in 1..(Len(traw) - 1) :
          /\ StartsWith(traw[i], <<"def ", "test_">>)
          /\ traw[i + 1] = LAssert
    /\ \A i \in 1..Len(traw) : ~IsImportLine(Strip(traw[i]))

\* C11: a fenced generation holding one complete test function that calls f
\* and no import of p is assembled to a file whose local import section has
\* the line "from p import f" and whose body has exactly one function block.
C11_RoundTrip ==
    C11_Case =>
        /\ \E i \in 1..Len(tfile) :
              /\ tkinds[i] = "local"
              /\ tfile[i] = <<"from ">> \o tmod.path \o <<" ", "import ">>
                                \o tmod.function_name
        /\ Len(tfunctions) = 1
        /\ Cardinality({i \in 1..Len(tfile) :
                           StartsWith(tfile[i], <<"def ", "test_">>)}) = 1

\* The definitions of the source file: the def and async def statements.
Definitions(tree) ==
    {i \in 1..Len(tree.kinds) : tree.kinds[i] \in {"FunctionDef", "AsyncFunctionDef"}}

\* C12: the descriptors source_code_analysis returns are in document order:
\* a definition whose def comes earlier in the source text comes earlier in
\* the list, also a method of a class before a function defined after the class.
C12_DocumentOrder ==
    apc = "analyzed" =>
        \A i, j \in 1..Len(functions_analysis) :
            i < j => functions_analysis[i].function_name
                        < functions_analysis[j].function_name

\* C13: source_code_analysis returns exactly one descriptor for every function
\* or method definition of the file, at any depth and for every kind of
\* definition statement.
C13_OnePerDefinition ==
    apc = "analyzed" =>
        /\ {functions_analysis[i].function_name : i \in 1..Len(functions_analysis)}
              = Definitions(source)
        /\ Len(functions_analysis) = Cardinality(Definitions(source))

\* C14: a descriptor has the code of an enclosing class exactly when the
\* body that holds the definition is a class body, and it is then the whole
\* text of that class; its name is the name of the definition and its code
\* the text of the definition.
C14_ParentClass ==
    apc = "analyzed" =>
        \A i \in 1..Len(functions_analysis) :
            LET d == functions_analysis[i]
                node == d.function_name
                holder == source.parent[node]
            IN  /\ node \in 1..Len(source.kinds)
                /\ source.kinds[node] = "FunctionDef"
                /\ d.function_code = unparse(source, node)
                /\ IF holder # Module /\ source.kinds[holder] = "ClassDef"
                   THEN d.parent_class_code = unparse(source, holder)
                   ELSE d.parent_class_code = None

\* A class with two methods, one of them holding a nested function: the
\* methods carry the class with both members, the nested function carries none.
C14_Witness ==
    /\ apc = "analyzed"
    /\ \E i, j, k \in 1..Len(functions_analysis) :
          /\ functions_analysis[i].parent_class_code # None
          /\ functions_analysis[j].parent_class_code
                = functions_analysis[i].parent_class_code
          /\ i # j
          /\ functions_analysis[k].parent_class_code = None
          /\ source.parent[functions_analysis[k].function_name]
                = functions_analysis[i].function_name

\* The call of process_file has ended: by its end, a return or an exception.
ProcessFileEnded == pc \in {"done", "returned", "raised"}

\* The generate command has ended.
GenerateEnded == gpc \in {"done", "exit0", "exit1", "error"}

\* C15: when the generation or its processing fails for one function of a
\* file, the other functions of the file are still processed and the blocks
\* recovered for them are still assembled and written: once process_file has
\* ended after starting its loop, a generation was asked for every function
\* and the accumulated blocks are in the written file.
C15_FunctionIsolation ==
    (ProcessFileEnded /\ dir_made) =>
        /\ generation_calls = nfuncs
        /\ all_test_functions # <<>> =>
              file = combine_test_code(all_imports, all_test_functions, mod.stem, mod.path)

\* C16: when the source file cannot be parsed, process_file returns without
\* raising, asks for no generation, creates no output directory and writes no
\* file, and the command goes on to its end.
C16_UnparsableSkipped ==
    (~source.parses /\ process_file_calls > 0) =>
        /\ pc \in {"analyze", "returned"}
        /\ generation_calls = 0
        /\ ~dir_made
        /\ writes = 0
        /\ gpc \in {"process_file", "done"}

\* The command has ended on a source file that does not parse.
C16_Witness ==
    /\ ~source.parses
    /\ process_file_calls = 1
    /\ pc = "returned"
    /\ gpc = "done"

\* The valid test blocks of the generation raw_response.
ValidOf(response) ==
    valid_functions(extract_imports_and_functions(
        postprocess_test_code_enhanced(response, mod.function_name, mod.path)).functions)

\* C17: a generation without a valid test block adds neither blocks nor
\* imports to what is accumulated, and a test file is written only when at
\* least one valid test block was accumulated.
C17_NothingFromInvalid ==
    /\ [](writes > 0 => (pc = "done" /\ all_test_functions # <<>>))
    /\ [](\A i \in 1..Len(all_test_functions) :
             TextContains(all_test_functions[i], <<"def ", "test_">>))
    /\ [][(generation_calls' = generation_calls + 1 /\ pc' # "raised"
              /\ ValidOf(raw_response') = <<>>)
            => (all_imports' = all_imports /\ all_test_functions' = all_test_functions)]_vars

\* The second generation of a file held an import and no valid test block;
\* the file was written with the blocks of the first.
C17_Witness ==
    /\ pc = "done"
    /\ generation_calls = 2
    /\ raw_response = <<LFromBar, LNoise>>
    /\ writes = 1
    /\ LFromBar \notin all_imports

\* C18: the text append_test_to_file writes is determined by the existing
\* file text and the new generation: whichever of the recovered imports the
\* module import path is taken from, the text is the same.
C18_AppendDeterministic ==
    lastOp = "append" =>
        \A p1, p2 \in ModulePathChoices(extract_imports_and_functions(prevFile).imports) :
            append_test_to_file(<<"test_">> \o mod.stem, prevFile, lastGen, p1)
              = append_test_to_file(<<"test_">> \o mod.stem, prevFile, lastGen, p2)

\* generate was invoked on an existing .py file, not in dry run, and the
\* overwrite confirmation was accepted or not needed; the command has ended.
C19_Case ==
    /\ GenerateEnded
    /\ target = "file_py" /\ output_dir = "given"
    /\ ~dry_run
    /\ confirm \in {"accepted", "not_asked"}

C20_DirectoryProcessed ==
    (GenerateEnded /\ target = "dir" /\ output_dir = "given" /\ confirm # "declined") =>
        process_file_calls = py_files

\* C21: in dry run the command creates nothing: it never calls the
\* generation service, never creates the output directory, never writes a
\* test file and never asks for the overwrite confirmation.
C21_DryRunCreatesNothing ==
    dry_run =>
        /\ generation_calls = 0
        /\ ~dir_made
        /\ writes = 0
        /\ confirm = "not_asked"

\* A dry run over a source file with functions, the output directory holding
\* files, has gone through the loop and the command has ended.
C21_Witness ==
    /\ dry_run
    /\ output_nonempty
    /\ gpc = "done"
    /\ pc = "done"
    /\ nfuncs >= 1
    /\ idx = nfuncs

\* C22: in one run of process_file the test file is written at most once,
\* and only when every function of the source file has been generated and
\* parsed; a run that stops before that leaves the file as it was.
C22_WrittenOnceAtEnd ==
    /\ [](writes <= 1)
    /\ [](pc = "raised" => writes = 0)
    /\ [][file' # file => writes' = writes + 1]_vars
    /\ [][writes' # writes =>
            (pc = "write" /\ idx = nfuncs /\ generation_calls = nfuncs)]_vars

\* A file of two functions: the test file was written once, after both
\* generations.
C22_Witness ==
    /\ pc = "done"
    /\ nfuncs = 2
    /\ generation_calls = 2
    /\ writes = 1
    /\ file \notin {NoFile, ExistingFile}

\* The run stopped in the generation for the second function, the test file
\* of an earlier run still in place.
C22_Witness_Stopped ==
    /\ pc = "raised"
    /\ generation_calls = 2
    /\ all_test_functions # <<>>
    /\ file = ExistingFile

\* The line the scan processed last is a decorator line.
IsDecoratorLine(line) == StartsWith(Strip(line), <<"@">>)

\* C23: a decorator line met while a block is being accumulated closes the
\* block and appends it to the result, without the decorator line; the
\* decorator line goes to the decorator buffer and the parser is outside a
\* function afterwards. This holds for an indented decorator line as well.
C23_DecoratorTransition ==
    [][(ppc = "scan" /\ pline' = pline + 1
          /\ IsDecoratorLine(ptext[pline + 1]) /\ parser.in_function)
        => /\ parser'.functions = Append(parser.functions, parser.current_function)
           /\ parser'.current_function = <<>>
           /\ parser'.decorator_lines = Append(parser.decorator_lines, ptext[pline + 1])
           /\ ~parser'.in_function]_vars

\* An indented decorator line has just closed the block of test_a: the block
\* is the last of the result, ends with the line before the decorator, and
\* the decorator is the only line in the buffer.
C23_Witness ==
    /\ ppc = "scan"
    /\ pline = 3
    /\ ptext[1] = LDefA /\ ptext[2] = LAssert /\ ptext[3] = LDecoratorIn
    /\ parser.functions = << <<LDefA, LAssert>> >>
    /\ parser.decorator_lines = <<LDecoratorIn>>
    /\ ~parser.in_function

\* C26: after every processed line the parser is in a function exactly when
\* the block being accumulated is not empty, and when it is in a function
\* the buffer of pending decorators is empty.
C26_ParserStateInvariant ==
    ppc \in {"scan", "done"} =>
        /\ parser.in_function <=> parser.current_function # <<>>
        /\ parser.in_function => parser.decorator_lines = <<>>

\* A def test_ line has just taken the buffered decorator into its block.
C26_Witness ==
    /\ ppc = "scan"
    /\ pline = 2
    /\ ptext[1] = LDecorator /\ ptext[2] = LDefA
    /\ parser.in_function
    /\ parser.current_function = <<LDecorator, LDefA>>
    /\ parser.decorator_lines = <<>>

\* The run of decorator lines of the text that ends at line k.
RECURSIVE DecoratorRun(_, _)
DecoratorRun(text, k) ==
    IF k >= 1 /\ IsDecoratorLine(text[k])
    THEN Append(DecoratorRun(text, k - 1), text[k])
    ELSE <<>>

\* C27: the decorator lines at the front of a returned block are the run of
\* decorator lines that comes immediately before the def line of the block
\* in the text: a decorator followed by other content before the next
\* def test_ line is not attached to that test function.
C27_DecoratorsImmediatelyPrecede ==
    ppc = "done" =>
        \A i \in 1..Len(presult.functions) :
            LET block == presult.functions[i]
                d     == DefLineIndex(block, 1)
            IN  \E k \in 1..Len(ptext) :
                    /\ ptext[k] = block[d]
                    /\ SubSeq(block, 1, d - 1) = DecoratorRun(ptext, k - 1)

\* The import is in the list the classification loop built for the bucket.
InBucketList(imp, bucket) ==
    \E i \in 1..Len(BucketList(timports, tmod.path, bucket)) :
        BucketList(timports, tmod.path, bucket)[i] = imp

\* C24: every accepted import that references the module import path
\* (contains it or starts with from <path>) is put in the local bucket, every
\* other accepted import recognised neither as standard library nor as
\* third-party is put in the third-party bucket, and each accepted import is
\* in exactly one bucket.
C24_ImportClassification ==
    tpc = "combined" =>
        \A imp \in timports :
            WellFormedImport(imp) =>
                /\ Cardinality({b \in {"stdlib", "third_party", "local"} :
                                   InBucketList(imp, b)}) = 1
                /\ NamesModule(imp, tmod.path) => InBucketList(imp, "local")
                /\ (~NamesModule(imp, tmod.path) /\ ~is_stdlib(imp) /\ ~is_third_party(imp))
                      => InBucketList(imp, "third_party")

\* C25: the import statements source_code_analysis returns hold no
\* duplicates: a statement whose text occurs several times in the source file
\* is returned once.
C25_ImportsWithoutDuplicates ==
    apc = "analyzed" =>
        \A i, j \in 1..Len(analysis_imports) :
            i < j => analysis_imports[i] # analysis_imports[j]

====
